---- MODULE Spec2Model ----
(***************************************************************************)
(* Model of src/app.py: the "Compare Players" handler of the NBA clutch    *)
(* comparison page, its two cached helpers get_player_id and               *)
(* get_career_clutch_stats, and the comparison ("Career Insights") step.   *)
(*                                                                         *)
(* Numbers.  Python floats that carry one decimal place are kept as        *)
(* integers counting TENTHS (ppg 0.7 is 7).  MIN of a totals row counts    *)
(* QUARTER minutes (MIN = 5 is 1.25 minutes) so that round(MIN, 1) is a    *)
(* real rounding.  The *_PCT columns count THOUSANDTHS (the upstream       *)
(* gives three decimals).  Round1(n, d) is round(n / d, 1) in tenths.      *)
(***************************************************************************)
EXTENDS Integers, Sequences, FiniteSets, TLC

(* ---------------------------- bounds ----------------------------------- *)
\* largest GP (games played) of an upstream totals row
MaxGP == 3
\* largest scale t of the stat totals of an upstream totals row
MaxTot == 1

(* ---------------------------- values ----------------------------------- *)
\* Python's None for a player id; ids of the directory are positive and
\* `not p_id` (line 112) is true of None and of nothing else there.
None == 0

\* an unset local / an absent cache entry
NoValue == [none |-> TRUE]

Abs(x) == IF x < 0 THEN -x ELSE x

\* round(n / d, 1) in tenths, d > 0: round-half-to-even on the exact value,
\* which is what Python's round gives whenever the tie is a binary fraction
\* (every tie n/d with d a divisor of 4*GP, GP < 20, is an odd quarter).
Round1(n, d) ==
  LET q == (10 * n) \div d
      r == (10 * n) % d
  IN  IF 2 * r < d THEN q
      ELSE IF 2 * r > d THEN q + 1
      ELSE IF q % 2 = 0 THEN q ELSE q + 1

(* ------------------------- the player directory ------------------------ *)
Names == {"LeBron James", "Kobe Bryant", "Nobody"}
Ids == {1, 2}

\* players.find_players_by_full_name: the ids of the players a name matches
find_players_by_full_name(player_name) ==
  CASE player_name = "LeBron James" -> <<1>>
    [] player_name = "Kobe Bryant" -> <<2>>
    [] OTHER -> <<>>

\* The directory is static data of the library, so the st.cache_data entry
\* of get_player_id always equals a fresh lookup and is not kept as state.
get_player_id(player_name) ==
  LET player_dict == find_players_by_full_name(player_name)
  IN  IF player_dict = <<>> THEN None ELSE player_dict[1]

(* ------------------------- the upstream endpoint ----------------------- *)
current_season == "2023-24"
historical_season == "1976-77"
Seasons == {current_season, historical_season}

\* One totals row of ClutchPlayerStats (per_mode 'Totals').
TotalsRow(gp, t) ==
  [GP |-> gp, MIN |-> 4 * t + 1, PTS |-> t, FG_PCT |-> 333 + t,
   FG3_PCT |-> 250, FT_PCT |-> 1000 - t, PLUS_MINUS |-> 2 * t - 1,
   AST |-> t + 1, REB |-> 2 * t, STL |-> t + 2, BLK |-> 1, TOV |-> 2 * t + 1]

EmptyFrame == [kind |-> "empty"]
Raises(msg) == [kind |-> "raise", msg |-> msg]
Frame(row) == [kind |-> "rows", row |-> row]

\* what ClutchPlayerStats(season=current_season).get_data_frames()[0] can do
Outcomes ==
  {EmptyFrame, Raises("Read timed out")}
  \cup {Frame(TotalsRow(gp, t)) : gp \in 0..MaxGP, t \in 0..MaxTot}

\* what ClutchPlayerStats(season='1976-77').get_data_frames()[0] can do
HistoricalOutcomes ==
  {EmptyFrame, Raises("Read timed out"), Frame(TotalsRow(MaxGP, MaxTot))}

Upstreams ==
  {[s \in Seasons |-> IF s = current_season THEN c ELSE h] :
     c \in Outcomes, h \in HistoricalOutcomes}

(* ------------------------ get_career_clutch_stats ---------------------- *)
MetricKeys ==
  {"games_played", "minutes", "ppg", "fg_pct", "fg3_pct", "ft_pct",
   "plus_minus", "total_points", "assists", "rebounds", "steals", "blocks",
   "turnovers"}

NoDataResult == [error |-> "No clutch stats found"]

\* except Exception as e: return {"error": str(e)}
ExceptionResult_fixed(msg) == NoDataResult
ExceptionResult(msg) == [error |-> msg]

\* the stats dict of lines 75-89; float(x) / float(0) raises ZeroDivisionError
ExtractStats_zero(row) ==
  LET gp == IF row.GP = 0 THEN 1 ELSE row.GP
  IN  [games_played |-> row.GP,
       minutes |-> Round1(row.MIN, 4),
       ppg |-> Round1(row.PTS, gp),
       fg_pct |-> Round1(row.FG_PCT * 100, 1000),
       fg3_pct |-> Round1(row.FG3_PCT * 100, 1000),
       ft_pct |-> Round1(row.FT_PCT * 100, 1000),
       plus_minus |-> Round1(row.PLUS_MINUS, 1),
       total_points |-> row.PTS,
       assists |-> Round1(row.AST, gp),
       rebounds |-> Round1(row.REB, gp),
       steals |-> Round1(row.STL, gp),
       blocks |-> Round1(row.BLK, gp),
       turnovers |-> Round1(row.TOV, gp)]
ExtractStats(row) ==
  IF row.GP = 0
  THEN ExceptionResult("float division by zero")
  ELSE [games_played |-> row.GP,
        minutes |-> Round1(row.MIN, 4),
        ppg |-> Round1(row.PTS, row.GP),
        fg_pct |-> Round1(row.FG_PCT * 100, 1000),
        fg3_pct |-> Round1(row.FG3_PCT * 100, 1000),
        ft_pct |-> Round1(row.FT_PCT * 100, 1000),
        plus_minus |-> Round1(row.PLUS_MINUS, 1),
        total_points |-> row.PTS,
        assists |-> Round1(row.AST, row.GP),
        rebounds |-> Round1(row.REB, row.GP),
        steals |-> Round1(row.STL, row.GP),
        blocks |-> Round1(row.BLK, row.GP),
        turnovers |-> Round1(row.TOV, row.GP)]

\* `if clutch_stats.empty:` after the primary query (line 60)
AfterPrimary_always(frame) == "fallback"
AfterPrimary(frame) == IF frame.kind = "empty" THEN "fallback" ELSE "extract"

\* st.cache_data: the entry of this player_id, NoValue on a miss
CacheLookup_shared(c, player_id) == IF c[1] # NoValue THEN c[1] ELSE c[player_id]
CacheLookup(c, player_id) == c[player_id]

(* --------------------------- the handler ------------------------------- *)
\* `if not p1_id or not p2_id:` (line 112)
IdsMissing_and(a, b) == a = None /\ b = None
IdsMissing(a, b) == a = None \/ b = None

\* `if "error" in p1_stats or "error" in p2_stats:` (line 122)
HasError_first(s1, s2) == "error" \in DOMAIN s1
HasError(s1, s2) == "error" \in DOMAIN s1 \/ "error" \in DOMAIN s2

\* `player1 if v1 > v2 else player2` (lines 169, 172)
better_ge(n1, v1, n2, v2) == IF v1 >= v2 THEN n1 ELSE n2
better(n1, v1, n2, v2) == IF v1 > v2 THEN n1 ELSE n2

metrics ==
  << <<"Clutch Games Played", "games_played", "">>,
     <<"Avg. Clutch Minutes", "minutes", "">>,
     <<"Points per Game", "ppg", "">>,
     <<"FG%", "fg_pct", "%">>,
     <<"3P%", "fg3_pct", "%">>,
     <<"FT%", "ft_pct", "%">>,
     <<"Plus/Minus", "plus_minus", "">>,
     <<"Total Clutch Points", "total_points", "">>,
     <<"Assists per Game", "assists", "">>,
     <<"Rebounds per Game", "rebounds", "">>,
     <<"Steals per Game", "steals", "">>,
     <<"Blocks per Game", "blocks", "">>,
     <<"Turnovers per Game", "turnovers", "">> >>

\* one column of st.metric boxes: label, value, suffix
display_clutch_stats(stats, name) ==
  [name |-> name,
   boxes |-> [i \in DOMAIN metrics |->
                <<metrics[i][1], stats[metrics[i][2]], metrics[i][3]>>]]

career_insights(n1, s1, n2, s2) ==
  [ppg_diff |-> Abs(s1.ppg - s2.ppg),
   better_scorer |-> better(n1, s1.ppg, n2, s2.ppg),
   plus_minus_diff |-> Abs(s1.plus_minus - s2.plus_minus),
   better_impact |-> better(n1, s1.plus_minus, n2, s2.plus_minus),
   games |-> <<s1.games_played, s2.games_played>>,
   minutes |-> <<s1.minutes, s2.minutes>>,
   total_points |-> <<s1.total_points, s2.total_points>>]

VARIABLES
  player1, player2,   \* the two text inputs
  p1_id, p2_id,       \* handler locals
  p1_stats, p2_stats, \* handler locals (NoValue until assigned)
  pc,                 \* position of the run
  who,                \* which player's stats call is in progress (1 or 2)
  clutch_stats,       \* local of get_career_clutch_stats
  cache,              \* st.cache_data of get_career_clutch_stats, by player_id
  upstream,           \* what the endpoint answers, by player_id and season
  ui_error,           \* st.error message of the run (NoValue if none)
  shown,              \* columns rendered by display_clutch_stats
  insights,           \* the "Career Insights" facts (NoValue if none)
  stats_calls,        \* history: calls of get_career_clutch_stats in the run
  queried,            \* history: seasons each call of the run sent upstream
  returned,           \* history: every result returned so far, by player_id
  allGames,           \* client-side variant: the game log handed to the aggregator
  clientSummary       \* client-side variant: its result (NoValue until run)

appvars ==
  <<player1, player2, p1_id, p2_id, p1_stats, p2_stats, pc, who, clutch_stats,
    cache, upstream, ui_error, shown, insights, stats_calls, queried, returned>>
clientvars == <<allGames, clientSummary>>
vars == <<appvars, clientvars>>

CurId == IF who = 1 THEN p1_id ELSE p2_id

Init ==
  /\ player1 = "LeBron James"
  /\ player2 = "Kobe Bryant"
  /\ p1_id = None /\ p2_id = None
  /\ p1_stats = NoValue /\ p2_stats = NoValue
  /\ pc = "idle"
  /\ who = 1
  /\ clutch_stats = NoValue
  /\ cache = [i \in Ids |-> NoValue]
  /\ upstream \in [Ids -> Upstreams]
  /\ ui_error = NoValue
  /\ shown = <<>>
  /\ insights = NoValue
  /\ stats_calls = <<>>
  /\ queried = [w \in 1..2 |-> <<>>]
  /\ returned = [i \in Ids |-> {}]
  /\ allGames = <<>>
  /\ clientSummary = NoValue

\* The user edits the two names and presses "Compare Players": the script
\* reruns from the top with fresh locals and a fresh page.
Compare ==
  /\ pc \in {"idle", "done", "stopped"}
  /\ \E n1 \in Names, n2 \in Names : player1' = n1 /\ player2' = n2
  /\ p1_id' = None /\ p2_id' = None
  /\ p1_stats' = NoValue /\ p2_stats' = NoValue
  /\ pc' = "get_ids"
  /\ who' = 1
  /\ clutch_stats' = NoValue
  /\ ui_error' = NoValue
  /\ shown' = <<>>
  /\ insights' = NoValue
  /\ stats_calls' = <<>>
  /\ queried' = [w \in 1..2 |-> <<>>]
  /\ UNCHANGED <<cache, upstream, returned>>
  /\ UNCHANGED clientvars

\* lines 109-114
GetPlayerIds ==
  /\ pc = "get_ids"
  /\ p1_id' = get_player_id(player1)
  /\ p2_id' = get_player_id(player2)
  /\ IF IdsMissing(p1_id', p2_id')
     THEN /\ ui_error' = <<"Player not found: ",
                           IF p1_id' = None THEN player1 ELSE player2>>
          /\ pc' = "stopped"
     ELSE /\ ui_error' = ui_error
          /\ pc' = "call"
  /\ UNCHANGED <<player1, player2, p1_stats, p2_stats, who, clutch_stats,
                 cache, upstream, shown, insights, stats_calls, queried,
                 returned>>
  /\ UNCHANGED clientvars

\* the caller receives the result of the call in progress (lines 117-119;
\* the time.sleep(1) between the two calls changes no state)
Deliver(r) ==
  /\ IF who = 1
     THEN p1_stats' = r /\ p2_stats' = p2_stats
     ELSE p2_stats' = r /\ p1_stats' = p1_stats
  /\ returned' = [returned EXCEPT ![CurId] = @ \cup {r}]
  /\ IF who = 1 THEN who' = 2 /\ pc' = "call" ELSE who' = who /\ pc' = "check"
  /\ clutch_stats' = NoValue

\* the body returns: st.cache_data stores the value under player_id
Return(r) ==
  /\ cache' = [cache EXCEPT ![CurId] = r]
  /\ Deliver(r)

\* get_career_clutch_stats(p_id) is called: a cache hit returns at once
CallStats ==
  /\ pc = "call"
  /\ stats_calls' = Append(stats_calls, who)
  /\ IF CacheLookup(cache, CurId) # NoValue
     THEN /\ Deliver(CacheLookup(cache, CurId))
          /\ UNCHANGED cache
     ELSE /\ pc' = "primary"
          /\ UNCHANGED <<p1_stats, p2_stats, who, clutch_stats, cache, returned>>
  /\ UNCHANGED <<player1, player2, p1_id, p2_id, upstream, ui_error, shown,
                 insights, queried>>
  /\ UNCHANGED clientvars

\* lines 51-60
QueryPrimary ==
  /\ pc = "primary"
  /\ queried' = [queried EXCEPT ![who] = Append(@, current_season)]
  /\ LET frame == upstream[CurId][current_season]
     IN  IF frame.kind = "raise"
         THEN Return(ExceptionResult(frame.msg))
         ELSE /\ clutch_stats' = frame
              /\ pc' = AfterPrimary(frame)
              /\ UNCHANGED <<p1_stats, p2_stats, who, cache, returned>>
  /\ UNCHANGED <<player1, player2, p1_id, p2_id, upstream, ui_error, shown,
                 insights, stats_calls>>
  /\ UNCHANGED clientvars

\* lines 62-72
QueryFallback ==
  /\ pc = "fallback"
  /\ queried' = [queried EXCEPT ![who] = Append(@, historical_season)]
  /\ LET frame == upstream[CurId][historical_season]
     IN  IF frame.kind = "raise"
         THEN Return(ExceptionResult(frame.msg))
         ELSE IF frame.kind = "empty"
         THEN Return(NoDataResult)
         ELSE /\ clutch_stats' = frame
              /\ pc' = "extract"
              /\ UNCHANGED <<p1_stats, p2_stats, who, cache, returned>>
  /\ UNCHANGED <<player1, player2, p1_id, p2_id, upstream, ui_error, shown,
                 insights, stats_calls>>
  /\ UNCHANGED clientvars

\* lines 71-93
Extract ==
  /\ pc = "extract"
  /\ Return(ExtractStats(clutch_stats.row))
  /\ UNCHANGED <<player1, player2, p1_id, p2_id, upstream, ui_error, shown,
                 insights, stats_calls, queried>>
  /\ UNCHANGED clientvars

\* lines 122-124
CheckErrors ==
  /\ pc = "check"
  /\ IF HasError(p1_stats, p2_stats)
     THEN /\ ui_error' = <<"Error fetching stats: ",
                           IF "error" \in DOMAIN p1_stats
                           THEN p1_stats.error ELSE p2_stats.error>>
          /\ pc' = "stopped"
     ELSE /\ ui_error' = ui_error
          /\ pc' = "display"
  /\ UNCHANGED <<player1, player2, p1_id, p2_id, p1_stats, p2_stats, who,
                 clutch_stats, cache, upstream, shown, insights, stats_calls,
                 queried, returned>>
  /\ UNCHANGED clientvars

\* lines 127-180
Display ==
  /\ pc = "display"
  /\ shown' = <<display_clutch_stats(p1_stats, player1),
                display_clutch_stats(p2_stats, player2)>>
  /\ insights' = career_insights(player1, p1_stats, player2, p2_stats)
  /\ pc' = "done"
  /\ UNCHANGED <<player1, player2, p1_id, p2_id, p1_stats, p2_stats, who,
                 clutch_stats, cache, upstream, ui_error, stats_calls,
                 queried, returned>>
  /\ UNCHANGED clientvars

\* ttl=3600: an entry of the cache expires
CacheExpire ==
  /\ \E i \in Ids : /\ cache[i] # NoValue
                    /\ cache' = [cache EXCEPT ![i] = NoValue]
  /\ UNCHANGED <<player1, player2, p1_id, p2_id, p1_stats, p2_stats, pc, who,
                 clutch_stats, upstream, ui_error, shown, insights,
                 stats_calls, queried, returned>>
  /\ UNCHANGED clientvars

Next ==
  \/ Compare
  \/ GetPlayerIds
  \/ CallStats
  \/ QueryPrimary
  \/ QueryFallback
  \/ Extract
  \/ CheckErrors
  \/ Display
  \/ CacheExpire

Spec == Init /\ [][Next]_vars

(***************************************************************************)
(* The client-side variant (aggregateClientSide): the script that computes *)
(* it is not among the sources, so it is modelled from section 4.1 of the  *)
(* specification.  A game carries the two fields the counts and means      *)
(* below read; the shooting fractions are left out.                        *)
(***************************************************************************)
\* longest game log
MaxGames == 3
\* largest points of one game
MaxPoints == 1
\* a game is clutch when abs(plusMinus) <= ClutchMargin
ClutchMargin == 5

PlusMinusValues ==
  {-(ClutchMargin + 1), -ClutchMargin, 3, ClutchMargin, ClutchMargin + 1}
Games == [points : 0..MaxPoints, plusMinus : PlusMinusValues]

NoGamesResult == [error |-> "no games found"]

IsClutchGame_strict(g) == Abs(g.plusMinus) < ClutchMargin
IsClutchGame(g) == Abs(g.plusMinus) <= ClutchMargin

RECURSIVE clutchGamesOf(_)
clutchGamesOf(games) ==
  IF games = <<>> THEN <<>>
  ELSE IF IsClutchGame(Head(games))
       THEN <<Head(games)>> \o clutchGamesOf(Tail(games))
       ELSE clutchGamesOf(Tail(games))

RECURSIVE SumPoints(_)
SumPoints(games) ==
  IF games = <<>> THEN 0 ELSE Head(games).points + SumPoints(Tail(games))

RECURSIVE SumPlusMinus(_)
SumPlusMinus(games) ==
  IF games = <<>> THEN 0 ELSE Head(games).plusMinus + SumPlusMinus(Tail(games))

RECURSIVE CountWins(_)
CountWins(games) ==
  IF games = <<>> THEN 0
  ELSE (IF Head(games).plusMinus > 0 THEN 1 ELSE 0) + CountWins(Tail(games))

aggregateClientSide(games) ==
  LET clutchGames == clutchGamesOf(games)
      n == Len(clutchGames)
  IN  IF games = <<>> THEN NoGamesResult
      ELSE [gamesPlayed |-> n,
            totalGames |-> Len(games),
            clutchGamePct |-> Round1(100 * n, Len(games)),
            ppg |-> IF n = 0 THEN 0 ELSE Round1(SumPoints(clutchGames), n),
            plus_minus |-> IF n = 0 THEN 0
                           ELSE Round1(SumPlusMinus(clutchGames), n),
            win_pct |-> IF n = 0 THEN 0
                        ELSE Round1(100 * CountWins(clutchGames), n),
            total_clutch_points |-> SumPoints(clutchGames)]

\* the fetch layer hands over one more game of the log
AddGame ==
  /\ clientSummary = NoValue
  /\ Len(allGames) < MaxGames
  /\ \E g \in Games : allGames' = Append(allGames, g)
  /\ UNCHANGED clientSummary
  /\ UNCHANGED appvars

AggregateClientSide ==
  /\ clientSummary = NoValue
  /\ clientSummary' = aggregateClientSide(allGames)
  /\ UNCHANGED allGames
  /\ UNCHANGED appvars

\* the next player's log
NewLog ==
  /\ clientSummary # NoValue
  /\ allGames' = <<>>
  /\ clientSummary' = NoValue
  /\ UNCHANGED appvars

InitClient ==
  /\ Init
  /\ upstream = [i \in Ids |-> [s \in Seasons |-> EmptyFrame]]

NextClient ==
  \/ AddGame
  \/ AggregateClientSide
  \/ NewLog

SpecClient == InitClient /\ [][NextClient]_vars
(***************************************************************************)
(* Properties.                                                             *)
(***************************************************************************)
IdOf(w) == IF w = 1 THEN p1_id ELSE p2_id
StatsOf(w) == IF w = 1 THEN p1_stats ELSE p2_stats
Primary(i) == upstream[i][current_season]
Fallback(i) == upstream[i][historical_season]
IsErr(s) == "error" \in DOMAIN s
IsSummary(s) == DOMAIN s = MetricKeys
\* the totals row a run for player i extracts from, when it gets that far
HasRow(i) ==
  \/ Primary(i).kind = "rows"
  \/ Primary(i).kind = "empty" /\ Fallback(i).kind = "rows"
UsedRow(i) ==
  IF Primary(i).kind = "rows" THEN Primary(i).row ELSE Fallback(i).row
\* the run for player i ends in the except clause
EndsInException(i) ==
  \/ Primary(i).kind = "raise"
  \/ Primary(i).kind = "empty" /\ Fallback(i).kind = "raise"
  \/ HasRow(i) /\ UsedRow(i).GP = 0

\* C1: a call queries the primary season first and the fallback season at
\* most once after it; the fallback is queried only when the primary record
\* set was empty, and is queried whenever it was; "No clutch stats found" is
\* returned only when the fallback record set was empty too.
C1_FallbackOnlyAfterEmptyPrimary ==
  \A w \in 1..2 :
    /\ queried[w] \in {<<>>, <<current_season>>,
                       <<current_season, historical_season>>}
    /\ Len(queried[w]) = 2 => Primary(IdOf(w)) = EmptyFrame
    /\ (pc = "fallback" /\ who = w) => queried[w] = <<current_season>>
    /\ (StatsOf(w) # NoValue /\ queried[w] # <<>>
          /\ Primary(IdOf(w)) = EmptyFrame) => Len(queried[w]) = 2
    /\ StatsOf(w) = NoDataResult =>
         /\ Primary(IdOf(w)) = EmptyFrame
         /\ Fallback(IdOf(w)) = EmptyFrame
         /\ queried[w] \in {<<>>, <<current_season, historical_season>>}

C1_Witness ==
  /\ p1_stats = NoDataResult
  /\ queried[1] = <<current_season, historical_season>>

\* C2 (as claimed): a GP = 0 totals row for the queried season together
\* with an empty fallback season yields the "no data" result.
C2_ZeroGPIsNoData ==
  \A w \in 1..2 :
    (/\ StatsOf(w) # NoValue
     /\ Primary(IdOf(w)).kind = "rows"
     /\ Primary(IdOf(w)).row.GP = 0
     /\ Fallback(IdOf(w)) = EmptyFrame)
    => StatsOf(w) = NoDataResult

\* C3 (as claimed): every per-game average of a summary, minutes included,
\* is the row's total divided by GP rounded to one decimal; games_played is
\* GP and total_points is PTS.
C3_AveragesAreTotalsOverGP ==
  \A w \in 1..2 :
    (StatsOf(w) # NoValue /\ IsSummary(StatsOf(w))) =>
      LET row == UsedRow(IdOf(w))
          s == StatsOf(w)
      IN  /\ row.GP > 0
          /\ s.ppg = Round1(row.PTS, row.GP)
          /\ s.assists = Round1(row.AST, row.GP)
          /\ s.rebounds = Round1(row.REB, row.GP)
          /\ s.steals = Round1(row.STL, row.GP)
          /\ s.blocks = Round1(row.BLK, row.GP)
          /\ s.turnovers = Round1(row.TOV, row.GP)
          /\ s.minutes = Round1(row.MIN, 4 * row.GP)
          /\ s.games_played = row.GP
          /\ s.total_points = row.PTS

\* C4: the better-scorer label is player 1 when player 1's ppg is strictly
\* greater and player 2 otherwise, ties included; likewise the better-impact
\* label over plus_minus; each difference is the absolute difference, never
\* negative and 0 exactly on a tie.
C4_LabelsAndDifferences ==
  insights # NoValue =>
    LET a == p1_stats.ppg
        b == p2_stats.ppg
        c == p1_stats.plus_minus
        d == p2_stats.plus_minus
    IN  /\ a > b => insights.better_scorer = player1
        /\ a <= b => insights.better_scorer = player2
        /\ c > d => insights.better_impact = player1
        /\ c <= d => insights.better_impact = player2
        /\ insights.ppg_diff >= 0
        /\ insights.ppg_diff \in {a - b, b - a}
        /\ (insights.ppg_diff = 0) <=> (a = b)
        /\ insights.plus_minus_diff >= 0
        /\ insights.plus_minus_diff \in {c - d, d - c}
        /\ (insights.plus_minus_diff = 0) <=> (c = d)

C4_Witness ==
  /\ pc = "done"
  /\ p1_id # p2_id
  /\ p1_stats.ppg = p2_stats.ppg
  /\ insights.better_scorer = player2
  /\ insights.ppg_diff = 0
  /\ p1_stats.games_played # p2_stats.games_played

\* C5: when either player's result is an error the run stops with an error
\* message and renders neither column nor any insight; columns and insights
\* exist only when both results are summaries.
C5_ErrorBlocksComparison ==
  /\ (pc \in {"display", "done"} \/ shown # <<>> \/ insights # NoValue) =>
       /\ p1_stats # NoValue /\ ~IsErr(p1_stats)
       /\ p2_stats # NoValue /\ ~IsErr(p2_stats)
  /\ (/\ p1_stats # NoValue /\ p2_stats # NoValue
      /\ IsErr(p1_stats) \/ IsErr(p2_stats)
      /\ pc # "check") =>
       /\ pc = "stopped"
       /\ ui_error # NoValue
       /\ ui_error[1] = "Error fetching stats: "
       /\ ui_error[2] \in {s.error : s \in {t \in {p1_stats, p2_stats} : IsErr(t)}}
       /\ shown = <<>>
       /\ insights = NoValue
  /\ pc = "done" => Len(shown) = 2 /\ insights # NoValue

C5_Witness ==
  /\ pc = "stopped"
  /\ p1_stats # NoValue /\ IsSummary(p1_stats)
  /\ p2_stats # NoValue /\ IsErr(p2_stats)
  /\ shown = <<>>

\* C6: a run that ends in the except clause never returns the result of a
\* "no data" run, and a run over two empty record sets returns exactly it.
C6_NoDataDistinctFromException ==
  \A w \in 1..2 :
    StatsOf(w) # NoValue =>
      /\ EndsInException(IdOf(w)) => StatsOf(w) # NoDataResult
      /\ (Primary(IdOf(w)) = EmptyFrame /\ Fallback(IdOf(w)) = EmptyFrame)
           => StatsOf(w) = NoDataResult

C6_Witness ==
  /\ p1_stats # NoValue /\ p2_stats # NoValue
  /\ EndsInException(p1_id)
  /\ IsErr(p1_stats)
  /\ p2_stats = NoDataResult

\* C7: every result ever returned for one player id, over all runs and
\* cache expiries against the same upstream, is the same result.
C7_SameResultEveryRun ==
  \A i \in Ids : Cardinality(returned[i]) <= 1

C7_Witness ==
  /\ p1_id = p2_id
  /\ p1_stats # NoValue /\ p2_stats # NoValue
  /\ queried[1] # <<>> /\ queried[2] # <<>>
  /\ IsSummary(p1_stats)
  /\ p1_stats = p2_stats

\* C9: no stats call is made unless both names resolved; a failed lookup
\* stops the run with "Player not found" naming a player whose lookup failed
\* (player 1 if player 1's failed, else player 2); player 1's stats are
\* requested before player 2's.
C9_NoStatsCallWithoutBothIds ==
  /\ stats_calls \in {<<>>, <<1>>, <<1, 2>>}
  /\ (stats_calls # <<>> \/ queried[1] # <<>> \/ queried[2] # <<>>) =>
       /\ get_player_id(player1) # None /\ p1_id = get_player_id(player1)
       /\ get_player_id(player2) # None /\ p2_id = get_player_id(player2)
  /\ queried[2] # <<>> => (stats_calls = <<1, 2>> /\ p1_stats # NoValue)
  /\ (/\ pc \notin {"idle", "get_ids"}
      /\ get_player_id(player1) = None \/ get_player_id(player2) = None) =>
       /\ pc = "stopped"
       /\ stats_calls = <<>>
       /\ p1_stats = NoValue /\ p2_stats = NoValue
       /\ ui_error # NoValue
       /\ ui_error[1] = "Player not found: "
       /\ get_player_id(ui_error[2]) = None
       /\ ui_error[2] = IF get_player_id(player1) = None
                        THEN player1 ELSE player2

C9_Witness ==
  /\ pc = "stopped"
  /\ get_player_id(player1) # None
  /\ get_player_id(player2) = None
  /\ ui_error = <<"Player not found: ", player2>>
  /\ stats_calls = <<>>

\* C10: every result of get_career_clutch_stats, returned or cached, is
\* either a record whose only key is "error" or a summary with exactly the
\* 13 metric keys, and a summary is only ever made from a row with GP # 0.
C10_ResultShape ==
  /\ \A w \in 1..2 :
       StatsOf(w) # NoValue =>
         /\ DOMAIN StatsOf(w) = {"error"} \/ DOMAIN StatsOf(w) = MetricKeys
         /\ IsSummary(StatsOf(w)) =>
              /\ HasRow(IdOf(w))
              /\ UsedRow(IdOf(w)).GP # 0
              /\ StatsOf(w).games_played # 0
  /\ \A i \in Ids :
       cache[i] # NoValue =>
         DOMAIN cache[i] = {"error"} \/ DOMAIN cache[i] = MetricKeys
  /\ pc = "extract" => (clutch_stats # NoValue /\ clutch_stats.kind = "rows")

C10_Witness ==
  /\ p1_stats # NoValue /\ IsSummary(p1_stats)
  /\ p2_stats = [error |-> "float division by zero"]
  /\ queried[2] = <<current_season>>

\* C8: for a non-empty game log, gamesPlayed is the number of games with
\* abs(plusMinus) <= 5, totalGames is the number of games, so gamesPlayed <=
\* totalGames and clutchGamePct lies in [0, 100] (0..1000 tenths).
C8_ClientCounts ==
  (clientSummary # NoValue /\ allGames # <<>>) =>
    /\ ~IsErr(clientSummary)
    /\ clientSummary.gamesPlayed =
         Cardinality({k \in 1..Len(allGames) :
                        /\ allGames[k].plusMinus <= 5
                        /\ allGames[k].plusMinus >= -5})
    /\ clientSummary.totalGames = Len(allGames)
    /\ clientSummary.gamesPlayed <= clientSummary.totalGames
    /\ clientSummary.clutchGamePct >= 0
    /\ clientSummary.clutchGamePct <= 1000

C8_Witness ==
  /\ clientSummary # NoValue
  /\ Len(allGames) = 3
  /\ allGames[1].plusMinus = 5
  /\ allGames[2].plusMinus = -5
  /\ allGames[3].plusMinus = 6
  /\ clientSummary.gamesPlayed = 2
  /\ clientSummary.clutchGamePct = 667
====
